---- MODULE Spec2Model ----
(***************************************************************************)
(* State-machine model of SemiSupervisedAnomalyDetector                    *)
(* (src/backend/semi_supervised_model.py): an Isolation Forest whose       *)
(* labels are revised by text similarity against a bank of explanations.   *)
(*                                                                         *)
(* External collaborators are abstracted, deterministically:               *)
(*  - IsolationForest: its fitted state is the set of feature rows it was  *)
(*    trained on; a row is an inlier (+1) iff it was seen in training.     *)
(*  - SentenceTransformer.encode: a fixed table from text to a vector.     *)
(*    The empty string has an embedding like any other text.  encode([])   *)
(*    returns an empty tensor.                                             *)
(*  - cosine similarity is compared exactly (squared, in integers);        *)
(*    thresholds are in tenths (7 stands for 0.7).                         *)
(* An optional Python value is a sequence of length <= 1: None is <<>>.    *)
(* A Python dict is a record; a missing key is a missing field.            *)
(*                                                                         *)
(* Four specifications share the module, each leaving the variables of the *)
(* others at rest:                                                         *)
(*  - Spec: the detector's public methods, its collaborators working;      *)
(*  - SpecFailing: fit and predict with an encoder that may raise;         *)
(*  - SpecApi: get_anomaly_data (src/backend/api.py) and its model_cache;  *)
(*  - SpecExplainer: AnomalyExplainer (src/backend/llm_explainer.py), its  *)
(*    construction, ensure_model_available and explain_anomaly.            *)
(***************************************************************************)
EXTENDS Integers, Sequences, FiniteSets, TLC

VARIABLES
    contamination,              \* self.contamination (hundredths)
    llm_confidence_threshold,   \* self.llm_confidence_threshold (tenths)
    use_llm_supervision,        \* self.use_llm_supervision
    isolation_forest,           \* fitted state of self.isolation_forest, None when unfitted
    llm_explanations_,          \* self.llm_explanations_ : None or list of dicts
    llm_embeddings_,            \* self.llm_embeddings_   : None or tensor (list of vectors)
    last_call,                  \* the method called last ("init" after construction)
    ret                         \* what that call raised ("none" when it returned) and returned

vars == <<contamination, llm_confidence_threshold, use_llm_supervision,
          isolation_forest, llm_explanations_, llm_embeddings_, last_call, ret>>

VARIABLES
    encoder_failed              \* sentence_encoder.encode raised during the last call

VARIABLES
    llm_explainer,              \* api.llm_explainer is not None
    model_cache,                \* api.model_cache: key -> value (the detector itself is the
                                \* detector variables above)
    request                     \* the request get_anomaly_data served last, None before the first

api_vars == <<llm_explainer, model_cache, request>>

VARIABLES
    max_retries,                \* ensure_model_available's max_retries
    attempt,                    \* its loop variable
    pc,                         \* where ensure_model_available stands
    error,                      \* the exception that left ensure_model_available ("none": none)
    log,                        \* what each attempt met, in order
    sleeps,                     \* time.sleep calls made
    prompt_template,            \* the attribute self.prompt_template exists
    llm,                        \* the attribute self.llm exists
    explained                   \* what the last explain_anomaly call gave, None before the first

explainer_vars ==
    <<max_retries, attempt, pc, error, log, sleeps, prompt_template, llm, explained>>

\* what no step of the explainer touches
other_vars == <<vars, encoder_failed, api_vars>>

all_vars == <<vars, encoder_failed, api_vars, explainer_vars>>

----------------------------------------------------------------------------
(* Bounds of the model *)

\* longest feature matrix, explanation list and feedback list passed to a call
MaxBatch == 2
\* update_with_feedback is not called once the store would outgrow this
MaxStore == 2

----------------------------------------------------------------------------
(* Python values *)

None == <<>>
Some(v) == <<v>>
IsNone(o) == o = <<>>
Val(o) == o[1]

\* len() of an optional list, None counting as 0
LenOpt(o) == IF IsNone(o) THEN 0 ELSE Len(Val(o))

\* dict.get(key, default)
Get(d, key, default) == IF key \in DOMAIN d THEN d[key] ELSE default

Min(a, b) == IF a <= b THEN a ELSE b

SeqsUpTo(S, n) == UNION {[1..k -> S] : k \in 0..n}

----------------------------------------------------------------------------
(* Inputs *)

Rows == {0, 1}
Matrices == SeqsUpTo(Rows, MaxBatch)

\* the record explain_anomaly returns for an index out of range: no 'explanation', no 'is_anomaly'
ErrorRecord == [error |-> "Index out of bounds"]

ExplanationDicts ==
    { [explanation |-> "a", is_anomaly |-> TRUE],
      [explanation |-> "b", is_anomaly |-> FALSE],
      [explanation |-> "",  is_anomaly |-> TRUE],
      ErrorRecord }

ExplanationLists == SeqsUpTo(ExplanationDicts, MaxBatch)
OptExplanationLists == {None} \cup {Some(e) : e \in ExplanationLists}
FeedbackLists == SeqsUpTo(BOOLEAN, MaxBatch)

DefaultThreshold == 7
Thresholds == {5, DefaultThreshold}

----------------------------------------------------------------------------
(* Collaborators *)

\* IsolationForest.fit: the fitted state
IForestFit(X) == {X[i] : i \in 1..Len(X)}

\* IsolationForest.predict on one row: 1 for normal, -1 for anomaly
IForestLabel(forest, row) == IF row \in forest THEN 1 ELSE -1

IForestPredict(forest, X) == [i \in 1..Len(X) |-> IForestLabel(forest, X[i])]

\* IsolationForest.score_samples on one row: lower is more anomalous
IForestScore(forest, row) == IF row \in forest THEN 0 ELSE -1

\* SentenceTransformer.encode on one text
Embed(text) ==
    CASE text = "a" -> <<1, 0, 0, 0>>
      [] text = "b" -> <<7, 7, 1, 1>>
      [] OTHER      -> <<0, 0, 0, 1>>

\* SentenceTransformer.encode(texts, convert_to_tensor=True)
Encode(texts) == [i \in 1..Len(texts) |-> Embed(texts[i])]

Dot(u, v) == u[1] * v[1] + u[2] * v[2] + u[3] * v[3] + u[4] * v[4]

\* the comparison written >= instead of >
CosineAtLeast(u, v, thr) ==
    LET d == Dot(u, v)
        n == Dot(u, u) * Dot(v, v)
    IN IF n = 0 THEN 0 >= thr
       ELSE d >= 0 /\ 100 * d * d >= thr * thr * n

\* cosine_similarity(u, v) > thr / 10, for thr >= 0; a zero vector has similarity 0
CosineAbove(u, v, thr) ==
    LET d == Dot(u, v)
        n == Dot(u, u) * Dot(v, v)
    IN IF n = 0 THEN 0 > thr
       ELSE d > 0 /\ 100 * d * d > thr * thr * n

\* np.max(similarities, axis=1)[i] > thr: the maximum exceeds thr iff some entry does
MaxSimAbove(u, embeddings, thr) ==
    \E j \in 1..Len(embeddings) : CosineAbove(u, embeddings[j], thr)

----------------------------------------------------------------------------
(* The detector object *)

Self ==
    [contamination            |-> contamination,
     llm_confidence_threshold |-> llm_confidence_threshold,
     use_llm_supervision      |-> use_llm_supervision,
     isolation_forest         |-> isolation_forest,
     llm_explanations_        |-> llm_explanations_,
     llm_embeddings_          |-> llm_embeddings_]

\* what a call hands back: the object after the call, the exception raised
\* ("none" when it returned) and the value returned
Outcome(self, raised, value) == [self |-> self, raised |-> raised, value |-> value]

----------------------------------------------------------------------------
(* fit *)

\* [exp['explanation'] for exp in explanations] raises KeyError on a dict without the key
HasKeyError(explanations) ==
    \E i \in 1..Len(explanations) : "explanation" \notin DOMAIN explanations[i]

Fit(self, X, explanations) ==
    LET store == self.use_llm_supervision /\ ~IsNone(explanations)
        s1 == IF store
              THEN [self EXCEPT !.llm_explanations_ = Some(Val(explanations))]
              ELSE self
        texts == [i \in 1..Len(Val(explanations)) |-> Val(explanations)[i].explanation]
        s2 == IF store
              THEN [s1 EXCEPT !.llm_embeddings_ = Some(Encode(texts))]
              ELSE s1
        s3 == [s2 EXCEPT !.isolation_forest = Some(IForestFit(X))]
    IN IF store /\ HasKeyError(Val(explanations)) THEN Outcome(s1, "KeyError", <<>>)
       ELSE IF Len(X) = 0 THEN Outcome(s2, "ValueError", <<>>)
       ELSE Outcome(s3, "none", <<>>)

----------------------------------------------------------------------------
(* predict *)

\* [exp.get('explanation', '') for exp in explanations]
ExplanationTexts(explanations) ==
    [i \in 1..Len(explanations) |-> Get(explanations[i], "explanation", "")]

\* the early return testing the list instead of its texts: if not explanation_texts
AnyTextListNonEmpty(texts) == Len(texts) > 0

\* any(explanation_texts)
AnyText(texts) == \E i \in 1..Len(texts) : texts[i] # ""

\* sim > self.llm_confidence_threshold and exp.get('is_anomaly', False)
Overrides(sim_above, exp) == sim_above /\ Get(exp, "is_anomaly", FALSE)

\* a symmetric override: a confident match takes the explanation's own verdict
OverrideLabelSymmetric(base, sim_above, exp) ==
    IF sim_above THEN (IF Get(exp, "is_anomaly", FALSE) THEN -1 ELSE 1) ELSE base

\* the label of one row after the loop body has run for it
OverrideLabel(base, sim_above, exp) == IF Overrides(sim_above, exp) THEN -1 ELSE base

PredictLabels(self, X, explanations) ==
    LET base_preds == IForestPredict(Val(self.isolation_forest), X)
        exps == Val(explanations)
        texts == ExplanationTexts(exps)
        new_embeddings == Encode(texts)
        stored == Val(self.llm_embeddings_)
        above(i) == MaxSimAbove(new_embeddings[i], stored, self.llm_confidence_threshold)
    IN IF ~self.use_llm_supervision \/ IsNone(explanations) THEN Outcome(self, "none", base_preds)
       ELSE IF ~AnyText(texts) THEN Outcome(self, "none", base_preds)
       ELSE IF IsNone(self.llm_embeddings_) \/ Len(stored) = 0
            THEN Outcome(self, "none", base_preds)
       \* zip(max_similarities, explanations) has one pair per explanation;
       \* base_preds[i] = -1 past the last row of X raises IndexError
       ELSE IF \E i \in (Len(X) + 1)..Len(exps) : Overrides(above(i), exps[i])
            THEN Outcome(self, "IndexError", <<>>)
       ELSE Outcome(self, "none",
                [i \in 1..Len(X) |->
                    IF i <= Len(exps)
                    THEN OverrideLabel(base_preds[i], above(i), exps[i])
                    ELSE base_preds[i]])

\* predict keeping the embeddings it computed in the store
PredictCaching(self, X, explanations) ==
    IF IsNone(self.isolation_forest) THEN Outcome(self, "NotFittedError", <<>>)
    ELSE IF Len(X) = 0 THEN Outcome(self, "ValueError", <<>>)
    ELSE LET out == PredictLabels(self, X, explanations)
             kept == IF IsNone(self.llm_embeddings_) THEN <<>> ELSE Val(self.llm_embeddings_)
         IN IF IsNone(explanations) THEN out
            ELSE [out EXCEPT !.self.llm_embeddings_ =
                     Some(kept \o Encode(ExplanationTexts(Val(explanations))))]

Predict(self, X, explanations) ==
    IF IsNone(self.isolation_forest) THEN Outcome(self, "NotFittedError", <<>>)
    ELSE IF Len(X) = 0 THEN Outcome(self, "ValueError", <<>>)
    ELSE PredictLabels(self, X, explanations)

----------------------------------------------------------------------------
(* score_samples *)

ScoreSamples(self, X) ==
    IF IsNone(self.isolation_forest) THEN Outcome(self, "NotFittedError", <<>>)
    ELSE IF Len(X) = 0 THEN Outcome(self, "ValueError", <<>>)
    ELSE Outcome(self, "none",
            [i \in 1..Len(X) |-> 0 - IForestScore(Val(self.isolation_forest), X[i])])

----------------------------------------------------------------------------
(* update_with_feedback *)

RECURSIVE Confirmed(_, _, _)
\* [exp for exp, fb in zip(explanations, feedback) if fb and exp.get('explanation')]
\* over the first n pairs
Confirmed(explanations, feedback, n) ==
    IF n = 0 THEN <<>>
    ELSE LET rest == Confirmed(explanations, feedback, n - 1)
         IN IF feedback[n] /\ Get(explanations[n], "explanation", "") # ""
            THEN Append(rest, explanations[n])
            ELSE rest

RECURSIVE WithText(_, _)
\* the filter without its feedback test: [exp for exp in explanations if exp.get('explanation')]
WithText(explanations, n) ==
    IF n = 0 THEN <<>>
    ELSE LET rest == WithText(explanations, n - 1)
         IN IF Get(explanations[n], "explanation", "") # ""
            THEN Append(rest, explanations[n])
            ELSE rest

NewExplanationsIgnoringFeedback(explanations, feedback) ==
    WithText(explanations, Min(Len(explanations), Len(feedback)))

NewExplanations(explanations, feedback) ==
    Confirmed(explanations, feedback, Min(Len(explanations), Len(feedback)))

\* the body of update_with_feedback after the early returns
UpdateStore(self, new_explanations) ==
    LET old == IF IsNone(self.llm_explanations_) THEN <<>> ELSE Val(self.llm_explanations_)
        s1 == [self EXCEPT !.llm_explanations_ = Some(old \o new_explanations)]
        new_embeddings ==
            Encode([i \in 1..Len(new_explanations) |-> new_explanations[i].explanation])
    IN IF IsNone(self.llm_embeddings_)
       THEN Outcome([s1 EXCEPT !.llm_embeddings_ = Some(new_embeddings)], "none", <<>>)
       \* torch is not imported: torch.cat raises NameError after the extend
       ELSE Outcome(s1, "NameError", <<>>)

\* update_with_feedback replacing the forest by a fresh, unfitted one
UpdateWithFeedbackResettingForest(self, explanations, feedback) ==
    LET new_explanations == NewExplanations(explanations, feedback)
        reset == [self EXCEPT !.isolation_forest = None]
    IN IF ~self.use_llm_supervision THEN Outcome(self, "none", <<>>)
       ELSE IF Len(new_explanations) = 0 THEN Outcome(self, "none", <<>>)
       ELSE UpdateStore(reset, new_explanations)

\* the argument X is never read
UpdateWithFeedback(self, explanations, feedback) ==
    LET new_explanations == NewExplanations(explanations, feedback)
    IN IF ~self.use_llm_supervision THEN Outcome(self, "none", <<>>)
       ELSE IF Len(new_explanations) = 0 THEN Outcome(self, "none", <<>>)
       ELSE UpdateStore(self, new_explanations)

----------------------------------------------------------------------------
(* The state machine: one action per public method *)

\* no request has reached the API
ApiAtRest ==
    /\ llm_explainer = FALSE
    /\ model_cache = <<>>
    /\ request = None

\* no explainer is being constructed
ExplainerAtRest ==
    /\ max_retries = 0
    /\ attempt = 0
    /\ pc = "idle"
    /\ error = "none"
    /\ log = <<>>
    /\ sleeps = 0
    /\ prompt_template = FALSE
    /\ llm = FALSE
    /\ explained = None

Init ==
    /\ encoder_failed = FALSE
    /\ ApiAtRest
    /\ ExplainerAtRest
    /\ contamination = 5
    /\ llm_confidence_threshold \in Thresholds
    /\ use_llm_supervision \in BOOLEAN
    /\ isolation_forest = None
    /\ llm_explanations_ = None
    /\ llm_embeddings_ = None
    /\ last_call = "init"
    /\ ret = [raised |-> "none", value |-> <<>>]

\* a call ends: the attributes it leaves on the detector, what it raised and returned
Return(out) ==
    /\ contamination' = out.self.contamination
    /\ llm_confidence_threshold' = out.self.llm_confidence_threshold
    /\ use_llm_supervision' = out.self.use_llm_supervision
    /\ isolation_forest' = out.self.isolation_forest
    /\ llm_explanations_' = out.self.llm_explanations_
    /\ llm_embeddings_' = out.self.llm_embeddings_
    /\ ret' = [raised |-> out.raised, value |-> out.value]

FitCall ==
    \E X \in Matrices, explanations \in OptExplanationLists :
        /\ last_call' = "fit"
        /\ Return(Fit(Self, X, explanations))
        /\ UNCHANGED <<encoder_failed, api_vars, explainer_vars>>

PredictCall ==
    \E X \in Matrices, explanations \in OptExplanationLists :
        /\ last_call' = "predict"
        /\ Return(Predict(Self, X, explanations))
        /\ UNCHANGED <<encoder_failed, api_vars, explainer_vars>>

ScoreSamplesCall ==
    \E X \in Matrices :
        /\ last_call' = "score_samples"
        /\ Return(ScoreSamples(Self, X))
        /\ UNCHANGED <<encoder_failed, api_vars, explainer_vars>>

UpdateWithFeedbackCall ==
    \E explanations \in ExplanationLists, feedback \in FeedbackLists :
        /\ LenOpt(llm_explanations_) + Len(NewExplanations(explanations, feedback)) <= MaxStore
        /\ last_call' = "update_with_feedback"
        /\ Return(UpdateWithFeedback(Self, explanations, feedback))
        /\ UNCHANGED <<encoder_failed, api_vars, explainer_vars>>

Next == FitCall \/ PredictCall \/ ScoreSamplesCall \/ UpdateWithFeedbackCall

Spec == Init /\ [][Next]_all_vars

----------------------------------------------------------------------------
(* fit and predict with an encoder that may raise *)

\* fit gets as far as sentence_encoder.encode (line 64)
FitEncodes(self, explanations) ==
    /\ self.use_llm_supervision
    /\ ~IsNone(explanations)
    /\ ~HasKeyError(Val(explanations))

\* fit, its encode call raising when encoder_up is false: no handler encloses
\* line 64, so the exception leaves fit after line 61 has stored the records
FitEncoding(self, X, explanations, encoder_up) ==
    IF FitEncodes(self, explanations) /\ ~encoder_up
    THEN Outcome([self EXCEPT !.llm_explanations_ = Some(Val(explanations))],
                 "EncodeError", <<>>)
    ELSE Fit(self, X, explanations)

\* predict gets as far as sentence_encoder.encode (line 93)
PredictEncodes(self, X, explanations) ==
    /\ ~IsNone(self.isolation_forest)
    /\ Len(X) > 0
    /\ self.use_llm_supervision
    /\ ~IsNone(explanations)
    /\ AnyText(ExplanationTexts(Val(explanations)))

\* predict, its encode call raising when encoder_up is false: no handler
\* encloses line 93
PredictEncoding(self, X, explanations, encoder_up) ==
    IF PredictEncodes(self, X, explanations) /\ ~encoder_up
    THEN Outcome(self, "EncodeError", <<>>)
    ELSE Predict(self, X, explanations)

\* the encoder's state matters to a call only if the call reaches encode
EncoderStates(reached) == IF reached THEN BOOLEAN ELSE {TRUE}

FitFailingCall ==
    \E X \in Matrices, explanations \in OptExplanationLists :
      \E encoder_up \in EncoderStates(FitEncodes(Self, explanations)) :
        /\ last_call' = "fit"
        /\ encoder_failed' = (FitEncodes(Self, explanations) /\ ~encoder_up)
        /\ Return(FitEncoding(Self, X, explanations, encoder_up))
        /\ UNCHANGED <<api_vars, explainer_vars>>

PredictFailingCall ==
    \E X \in Matrices, explanations \in OptExplanationLists :
      \E encoder_up \in EncoderStates(PredictEncodes(Self, X, explanations)) :
        /\ last_call' = "predict"
        /\ encoder_failed' = (PredictEncodes(Self, X, explanations) /\ ~encoder_up)
        /\ Return(PredictEncoding(Self, X, explanations, encoder_up))
        /\ UNCHANGED <<api_vars, explainer_vars>>

NextFailing == FitFailingCall \/ PredictFailingCall

\* a detector constructed with the default threshold (the threshold plays no
\* part in what an encoder failure does)
InitFailing == Init /\ llm_confidence_threshold = DefaultThreshold

SpecFailing == InitFailing /\ [][NextFailing]_all_vars

----------------------------------------------------------------------------
(* get_anomaly_data (src/backend/api.py) *)

\* longest data frame a request fetches
MaxRows == 3

\* the cleaned data frame, as the rows of its feature columns
Frames == SeqsUpTo(Rows, MaxRows)

\* preprocess_data: split_idx = int(len(df) * (1 - holdout)), holdout = 0.2
SplitIdx(df) == (Len(df) * 8) \div 10

\* preprocess_data: the rows before split_idx train, the others are inferred on
PreprocessData(df) ==
    [X_train |-> SubSeq(df, 1, SplitIdx(df)),
     X_infer |-> SubSeq(df, SplitIdx(df) + 1, Len(df))]

CacheKey(use_llm) == IF use_llm THEN "anomaly_data_llm" ELSE "anomaly_data"

\* SemiSupervisedAnomalyDetector(contamination=0.05, n_estimators=100,
\*                               use_llm_supervision=supervision)
NewDetector(supervision) ==
    [contamination            |-> 5,
     llm_confidence_threshold |-> DefaultThreshold,
     use_llm_supervision      |-> supervision,
     isolation_forest         |-> None,
     llm_explanations_        |-> None,
     llm_embeddings_          |-> None]

\* model_cache['semi_supervised_model'], created by the first request that gets this far
CachedDetector(self, cache, use_llm, explainer) ==
    IF "semi_supervised_model" \in DOMAIN cache
    THEN self
    ELSE NewDetector(use_llm /\ explainer)

\* the explanations handed to fit.  explanations = None (line 82); with use_llm
\* and an explainer the try block starts by calling IsolationForest (line 86),
\* a name api.py does not import: NameError, caught at line 105, and
\* explanations is still None
TrainExplanations(use_llm, explainer) ==
    IF use_llm /\ explainer THEN None ELSE None

\* lines 114-122: one record per row of X_infer; explain_anomaly formats
\* self.prompt_template, which a constructed explainer does not have, so each
\* call raises and the row gets the record of line 122
InferExplanations(X_infer) ==
    [i \in 1..Len(X_infer) |-> [explanation |-> "", is_anomaly |-> FALSE]]

\* the detector's part of the handler, lines 109-126
FitThenPredict(self, use_llm, explainer, data) ==
    LET explanations == TrainExplanations(use_llm, explainer)
        fitted == Fit(self, data.X_train, explanations)
    IN IF fitted.raised # "none" THEN fitted
       ELSE IF use_llm /\ explainer /\ LenOpt(explanations) > 0
            THEN Predict(fitted.self, data.X_infer, Some(InferExplanations(data.X_infer)))
            ELSE Predict(fitted.self, data.X_infer, None)

\* get_anomaly_data(use_llm) past the cache lookup, on the data frame df:
\* the detector it leaves in the cache, what it raised, the labels it returned
Serve(self, cache, explainer, use_llm, df) ==
    LET data == PreprocessData(df)
        model == CachedDetector(self, cache, use_llm, explainer)
    IN \* StandardScaler.fit_transform raises ValueError on no rows (line 69)
       IF Len(data.X_train) = 0 THEN Outcome(self, "ValueError", <<>>)
       ELSE FitThenPredict(model, use_llm, explainer, data)

\* a request answered from model_cache (lines 62-64)
ServedFromCache(use_llm) ==
    /\ request' = Some([use_llm |-> use_llm, computed |-> FALSE, df |-> <<>>,
                        raised |-> "none", labels |-> model_cache[CacheKey(use_llm)]])
    /\ UNCHANGED <<vars, model_cache>>

\* a request computed (lines 66-147)
ServedFresh(use_llm, df) ==
    LET out == Serve(Self, model_cache, llm_explainer, use_llm, df)
        created == Len(PreprocessData(df).X_train) > 0
    IN /\ request' = Some([use_llm |-> use_llm, computed |-> TRUE, df |-> df,
                           raised |-> out.raised, labels |-> out.value])
       /\ model_cache' =
             [k \in DOMAIN model_cache
                     \cup (IF created THEN {"semi_supervised_model"} ELSE {})
                     \cup (IF out.raised = "none" THEN {CacheKey(use_llm)} ELSE {}) |->
                 IF k = "semi_supervised_model" THEN <<>>
                 ELSE IF k = CacheKey(use_llm) /\ out.raised = "none" THEN out.value
                 ELSE model_cache[k]]
       /\ IF created
          THEN last_call' = "predict" /\ Return(out)
          ELSE UNCHANGED vars

GetAnomalyDataCall ==
    \E use_llm \in BOOLEAN, df \in Frames :
        /\ IF CacheKey(use_llm) \in DOMAIN model_cache
           THEN ServedFromCache(use_llm)
           ELSE ServedFresh(use_llm, df)
        /\ UNCHANGED <<llm_explainer, encoder_failed, explainer_vars>>

\* the module is imported: llm_explainer is the explainer, or None when its
\* construction raised (lines 48-53); model_cache is empty (line 45)
InitApi ==
    /\ encoder_failed = FALSE
    /\ ExplainerAtRest
    /\ llm_explainer \in BOOLEAN
    /\ model_cache = <<>>
    /\ request = None
    /\ contamination = 5
    /\ llm_confidence_threshold = DefaultThreshold
    /\ use_llm_supervision = FALSE
    /\ isolation_forest = None
    /\ llm_explanations_ = None
    /\ llm_embeddings_ = None
    /\ last_call = "init"
    /\ ret = [raised |-> "none", value |-> <<>>]

NextApi == GetAnomalyDataCall

SpecApi == InitApi /\ [][NextApi]_all_vars

----------------------------------------------------------------------------
(* AnomalyExplainer (src/backend/llm_explainer.py) *)

\* ensure_model_available(max_retries = 3)
DefaultMaxRetries == 3
\* largest max_retries a direct call of ensure_model_available passes
MaxRetries == 3

\* what GET {base_url}/api/tags can give (lines 35-39): the model listed; a
\* 200 answer without it; another status; a requests exception (no connection,
\* a body that is not JSON); an exception of another class (a listed model
\* without 'name': KeyError)
TagsAnswers == {"listed", "not_listed", "bad_status", "request_exception", "other_exception"}

\* what POST {base_url}/api/pull and raise_for_status can give (lines 43-48)
PullAnswers == {"ok", "request_exception"}

\* the test written one too far: attempt == max_retries
IsLastAttemptOffByOne(i, n) == i = n

\* attempt == max_retries - 1 (line 51)
IsLastAttempt(i, n) == i = n - 1

\* the object exists and no call on it is running
Callable == llm /\ pc \in {"returned", "raised"}

\* AnomalyExplainer(): __init__ sets model_name and base_url and calls
\* self.ensure_model_available() (lines 20-22)
Construct ==
    /\ pc = "idle"
    /\ max_retries' = DefaultMaxRetries
    /\ attempt' = 0
    /\ pc' = "for"
    /\ UNCHANGED <<error, log, sleeps, prompt_template, llm, explained, other_vars>>

\* explainer.ensure_model_available(max_retries = n) on a constructed explainer
EnsureModelAvailableCall ==
    \E n \in 0..MaxRetries :
        /\ Callable
        /\ max_retries' = n
        /\ attempt' = 0
        /\ pc' = "for"
        /\ error' = "none"
        /\ log' = <<>>
        /\ sleeps' = 0
        /\ UNCHANGED <<prompt_template, llm, explained, other_vars>>

\* for attempt in range(max_retries) (line 32): the next attempt, or, the
\* range exhausted, the statement after the loop (line 55) and the return
ForStep ==
    /\ pc = "for"
    /\ IF attempt < max_retries
       THEN pc' = "get" /\ UNCHANGED prompt_template
       ELSE pc' = "returned" /\ prompt_template' = TRUE
    /\ UNCHANGED <<max_retries, attempt, error, log, sleeps, llm, explained, other_vars>>

\* except requests.exceptions.RequestException (lines 50-54), the attempt
\* having met `what`
Except(what) ==
    /\ log' = Append(log, what)
    /\ IF IsLastAttempt(attempt, max_retries)
       THEN pc' = "raised" /\ error' = "RuntimeError"
       ELSE pc' = "sleep" /\ UNCHANGED error

\* requests.get(.../api/tags) and the test of its answer (lines 35-39)
GetTags ==
    \E answer \in TagsAnswers :
        /\ pc = "get"
        /\ CASE answer = "listed" ->
                  pc' = "returned" /\ log' = Append(log, "listed") /\ UNCHANGED error
             [] answer \in {"not_listed", "bad_status"} ->
                  pc' = "pull" /\ UNCHANGED <<log, error>>
             [] answer = "request_exception" -> Except("get_failed")
             [] answer = "other_exception" ->
                  pc' = "raised" /\ error' = "KeyError" /\ log' = Append(log, "get_raised")
        /\ UNCHANGED <<max_retries, attempt, sleeps, prompt_template, llm, explained, other_vars>>

\* requests.post(.../api/pull), raise_for_status and the return (lines 42-48)
Pull ==
    \E answer \in PullAnswers :
        /\ pc = "pull"
        /\ IF answer = "ok"
           THEN pc' = "returned" /\ log' = Append(log, "pulled") /\ UNCHANGED error
           ELSE Except("pull_failed")
        /\ UNCHANGED <<max_retries, attempt, sleeps, prompt_template, llm, explained, other_vars>>

\* time.sleep(retry_delay) and the loop's next value (lines 53-54, 32)
Sleep ==
    /\ pc = "sleep"
    /\ sleeps' = sleeps + 1
    /\ attempt' = attempt + 1
    /\ pc' = "for"
    /\ UNCHANGED <<max_retries, error, log, prompt_template, llm, explained, other_vars>>

\* __init__ after ensure_model_available has returned: self.llm = Ollama(...)
\* (lines 24-28)
FinishInit ==
    /\ pc = "returned"
    /\ ~llm
    /\ llm' = TRUE
    /\ UNCHANGED <<max_retries, attempt, pc, error, log, sleeps, prompt_template, explained, other_vars>>

\* explain_anomaly(df, idx): what it raised and what it returned
ExplainAnomaly(has_template, in_range, llm_up) ==
    IF ~in_range THEN [raised |-> "none", returned |-> "error_record"]
    \* self.prompt_template.format (line 96) on an object without the attribute
    ELSE IF ~has_template THEN [raised |-> "AttributeError", returned |-> "nothing"]
    \* chain.invoke (line 105)
    ELSE IF ~llm_up THEN [raised |-> "LLMError", returned |-> "nothing"]
    ELSE [raised |-> "none", returned |-> "explanation"]

ExplainAnomalyCall ==
    \E in_range \in BOOLEAN, llm_up \in BOOLEAN :
        /\ Callable
        /\ explained' = Some(ExplainAnomaly(prompt_template, in_range, llm_up))
        /\ UNCHANGED <<max_retries, attempt, pc, error, log, sleeps, prompt_template, llm, other_vars>>

\* the steps of ensure_model_available once it has been entered
EnsureStep == ForStep \/ GetTags \/ Pull \/ Sleep

InitExplainer ==
    /\ encoder_failed = FALSE
    /\ ApiAtRest
    /\ ExplainerAtRest
    /\ contamination = 5
    /\ llm_confidence_threshold = DefaultThreshold
    /\ use_llm_supervision = FALSE
    /\ isolation_forest = None
    /\ llm_explanations_ = None
    /\ llm_embeddings_ = None
    /\ last_call = "init"
    /\ ret = [raised |-> "none", value |-> <<>>]

NextExplainer ==
    \/ Construct
    \/ EnsureModelAvailableCall
    \/ ForStep
    \/ GetTags
    \/ Pull
    \/ Sleep
    \/ FinishInit
    \/ ExplainAnomalyCall

\* the calls ensure_model_available makes (requests.get, requests.post,
\* time.sleep) return or raise, so a step that is enabled is taken
SpecExplainer == InitExplainer /\ [][NextExplainer]_all_vars /\ WF_all_vars(EnsureStep)

----------------------------------------------------------------------------
(* Vocabulary of the properties *)

Fitted == ~IsNone(isolation_forest)
StoreRecords == IF IsNone(llm_explanations_) THEN <<>> ELSE Val(llm_explanations_)
StoreEmbeddings == IF IsNone(llm_embeddings_) THEN <<>> ELSE Val(llm_embeddings_)
BaseLabels(X) == IForestPredict(Val(isolation_forest), X)
TextOf(exp) == Get(exp, "explanation", "")
FlagOf(exp) == Get(exp, "is_anomaly", FALSE)
IsPrefix(s, t) == Len(s) <= Len(t) /\ SubSeq(t, 1, Len(s)) = s

\* what a call gave its caller: the exception raised and the value returned
Result(out) == [raised |-> out.raised, value |-> out.value]

\* the last call was predict, and (X, explanations) are arguments with which
\* predict, on this detector, gives what that call gave
CalledPredict(X, explanations) ==
    /\ last_call = "predict"
    /\ ret = Result(Predict(Self, X, explanations))

Sign(x) == IF x > 0 THEN 1 ELSE IF x < 0 THEN -1 ELSE 0

\* how the cosine similarity of u and v compares with thr / 10 (thr >= 0):
\* 1 when greater, 0 when equal, -1 when smaller
SimVersus(u, v, thr) ==
    LET d == Dot(u, v)
        n == Dot(u, u) * Dot(v, v)
    IN IF n = 0 THEN Sign(0 - thr)
       ELSE IF d < 0 THEN -1
       ELSE Sign(100 * d * d - thr * thr * n)

\* the rows of X that have an explanation slot
Slots(X, explanations) == 1..Min(Len(X), Len(Val(explanations)))

\* the maximum similarity of u to the store is exactly thr
MaxSimEquals(u, thr) ==
    /\ \E j \in 1..Len(StoreEmbeddings) : SimVersus(u, StoreEmbeddings[j], thr) = 0
    /\ \A j \in 1..Len(StoreEmbeddings) : SimVersus(u, StoreEmbeddings[j], thr) <= 0

\* some stored record is tagged anomalous and is more similar to u than thr
AnomalousMatch(u, thr) ==
    \E j \in 1..Min(Len(StoreEmbeddings), Len(StoreRecords)) :
        /\ SimVersus(u, StoreEmbeddings[j], thr) = 1
        /\ FlagOf(StoreRecords[j])

\* some stored embedding is more similar to u than thr
AnyMatch(u, thr) ==
    \E j \in 1..Len(StoreEmbeddings) : SimVersus(u, StoreEmbeddings[j], thr) = 1

----------------------------------------------------------------------------
(* C1 *)

PassThroughCase(X, explanations) ==
    /\ Fitted
    /\ Len(X) > 0
    /\ \/ ~use_llm_supervision
       \/ IsNone(explanations)
       \/ Len(StoreRecords) = 0
       \/ \A i \in 1..Len(Val(explanations)) : TextOf(Val(explanations)[i]) = ""

\* C1: on a fitted detector, predict(X, explanations) returns exactly the base
\* scorer's labels whenever use_llm_supervision is false, or explanations is
\* omitted, or the explanation store holds no record, or every explanation
\* text is empty.
C1_PassThrough ==
    \A X \in Matrices, explanations \in OptExplanationLists :
        PassThroughCase(X, explanations) =>
            LET out == Predict(Self, X, explanations)
            IN out.raised = "none" /\ out.value = BaseLabels(X) /\ out.self = Self

\* predict returned the base labels for a batch whose texts are all empty, on a
\* detector with text supervision on and a stored empty-text record that
\* matches a row asserting anomaly
C1_Witness ==
    /\ use_llm_supervision
    /\ Len(StoreRecords) > 0
    /\ AnyMatch(Embed(""), llm_confidence_threshold)
    /\ \E X \in Matrices, explanations \in OptExplanationLists :
        /\ CalledPredict(X, explanations)
        /\ PassThroughCase(X, explanations)
        /\ ~IsNone(explanations)
        /\ \E i \in Slots(X, explanations) :
              BaseLabels(X)[i] = 1 /\ FlagOf(Val(explanations)[i])
        /\ ret = [raised |-> "none", value |-> BaseLabels(X)]

----------------------------------------------------------------------------
(* C2 *)

\* C2: whatever fit and update_with_feedback calls came before, and whatever
\* the store, the texts, the is_anomaly flags and the similarities are, every
\* row whose base label is anomaly (-1) is returned as anomaly by predict.
C2_OverrideMonotone ==
    \A X \in Matrices, explanations \in OptExplanationLists :
        (CalledPredict(X, explanations) /\ ret.raised = "none") =>
            \A i \in 1..Len(X) : BaseLabels(X)[i] = -1 => ret.value[i] = -1

\* predict returned anomaly for a base-flagged row whose explanation says
\* "not an anomaly" and whose text matches a stored record tagged normal
C2_Witness ==
    /\ use_llm_supervision
    /\ \E X \in Matrices, explanations \in OptExplanationLists :
        /\ CalledPredict(X, explanations)
        /\ ret.raised = "none"
        /\ ~IsNone(explanations)
        /\ \E i \in Slots(X, explanations) :
              /\ BaseLabels(X)[i] = -1
              /\ ret.value[i] = -1
              /\ TextOf(Val(explanations)[i]) # ""
              /\ ~FlagOf(Val(explanations)[i])
              /\ AnyMatch(Embed(TextOf(Val(explanations)[i])), llm_confidence_threshold)
              /\ ~AnomalousMatch(Embed(TextOf(Val(explanations)[i])), llm_confidence_threshold)

----------------------------------------------------------------------------
(* C3 *)

----------------------------------------------------------------------------
(* C4 *)

\* C4: with text supervision on, a row whose maximum similarity to the store
\* is exactly confidence_threshold keeps its base label (the comparison is
\* strict), while a base-normal row with a non-empty text that is strictly
\* more similar than confidence_threshold to a stored anomalous record, and
\* whose own explanation has is_anomaly = true, is returned as anomaly.
C4_ThresholdBoundary ==
    \A X \in Matrices, explanations \in OptExplanationLists :
        (CalledPredict(X, explanations) /\ ret.raised = "none"
            /\ use_llm_supervision /\ ~IsNone(explanations)) =>
            \A i \in Slots(X, explanations) :
                LET exp == Val(explanations)[i]
                    u == Embed(TextOf(exp))
                IN /\ MaxSimEquals(u, llm_confidence_threshold)
                        => ret.value[i] = BaseLabels(X)[i]
                   /\ (/\ BaseLabels(X)[i] = 1
                       /\ TextOf(exp) # ""
                       /\ AnomalousMatch(u, llm_confidence_threshold)
                       /\ FlagOf(exp))
                        => ret.value[i] = -1

\* predict left a base-normal row normal although its explanation asserts
\* anomaly, its text being exactly as similar to the store as the threshold
C4_Witness ==
    /\ use_llm_supervision
    /\ \E X \in Matrices, explanations \in OptExplanationLists :
        /\ CalledPredict(X, explanations)
        /\ ret.raised = "none"
        /\ ~IsNone(explanations)
        /\ \E i \in Slots(X, explanations) :
              /\ BaseLabels(X)[i] = 1
              /\ ret.value[i] = 1
              /\ TextOf(Val(explanations)[i]) # ""
              /\ FlagOf(Val(explanations)[i])
              /\ MaxSimEquals(Embed(TextOf(Val(explanations)[i])), llm_confidence_threshold)

----------------------------------------------------------------------------
(* C5 *)

\* C5: predict turns a base-normal row into an anomaly only if some stored
\* record more similar to the row's explanation than confidence_threshold has
\* is_anomaly = true.
C5_OverrideNeedsAnomalousRecord ==
    \A X \in Matrices, explanations \in OptExplanationLists :
        (CalledPredict(X, explanations) /\ ret.raised = "none" /\ ~IsNone(explanations)) =>
            \A i \in Slots(X, explanations) :
                (BaseLabels(X)[i] = 1 /\ ret.value[i] = -1) =>
                    AnomalousMatch(Embed(TextOf(Val(explanations)[i])),
                                   llm_confidence_threshold)

----------------------------------------------------------------------------
(* C6 *)

\* the entries update_with_feedback may keep: confirmed and with a non-empty text
Eligible(explanations, feedback) ==
    {i \in 1..Min(Len(explanations), Len(feedback)) :
        feedback[i] /\ TextOf(explanations[i]) # ""}

RecordsOf(self) == IF IsNone(self.llm_explanations_) THEN <<>> ELSE Val(self.llm_explanations_)
EmbeddingsOf(self) == IF IsNone(self.llm_embeddings_) THEN <<>> ELSE Val(self.llm_embeddings_)

\* C6: update_with_feedback is a filtered pure append. In every reachable
\* state and for every explanations and feedback: the records (and the
\* embeddings) held before the call are a prefix of those held after it, every
\* record added is an entry with true feedback and a non-empty text, no more
\* records are added than there are such entries, and when there is no such
\* entry (all feedback false, or all texts empty) the call returns without
\* raising and leaves the detector as it was.
C6_FilteredAppend ==
    \A explanations \in ExplanationLists, feedback \in FeedbackLists :
        LET out == UpdateWithFeedback(Self, explanations, feedback)
            after == RecordsOf(out.self)
            kept == Eligible(explanations, feedback)
        IN /\ IsPrefix(StoreRecords, after)
           /\ IsPrefix(StoreEmbeddings, EmbeddingsOf(out.self))
           /\ \A k \in (Len(StoreRecords) + 1)..Len(after) :
                 \E i \in kept : after[k] = explanations[i]
           /\ Len(after) - Len(StoreRecords) <= Cardinality(kept)
           /\ kept = {} => (out.raised = "none" /\ out.self = Self)

\* update_with_feedback has appended one confirmed record behind a record
\* that was already stored, having been given a second entry that it dropped
C6_Witness ==
    /\ last_call = "update_with_feedback"
    /\ Len(StoreRecords) = 2
    /\ \E explanations \in ExplanationLists, feedback \in FeedbackLists :
        /\ Len(explanations) = 2
        /\ Len(feedback) = 2
        /\ Cardinality(Eligible(explanations, feedback)) = 1
        /\ \E i \in Eligible(explanations, feedback) : StoreRecords[2] = explanations[i]
        /\ \E before \in ExplanationLists :
              /\ Len(before) = 1
              /\ StoreRecords[1] = before[1]
              /\ LET was == [Self EXCEPT !.llm_explanations_ = Some(before)]
                     out == UpdateWithFeedback(was, explanations, feedback)
                 IN out.self = Self /\ out.raised = ret.raised

----------------------------------------------------------------------------
(* C7 *)

\* C7: in every reachable state, also after a call that raised, the stored
\* records and the stored embeddings have the same count, every stored record
\* has a non-empty text, and the embedding at each index is that of the
\* record at that index.
C7_StoreInvariant ==
    /\ Len(StoreRecords) = Len(StoreEmbeddings)
    /\ \A k \in 1..Len(StoreRecords) : TextOf(StoreRecords[k]) # ""
    /\ \A k \in 1..Min(Len(StoreRecords), Len(StoreEmbeddings)) :
          StoreEmbeddings[k] = Embed(TextOf(StoreRecords[k]))

----------------------------------------------------------------------------
(* C8 *)

\* C8: a record missing its text key or its is_anomaly key never makes fit,
\* predict or update_with_feedback raise (KeyError is the exception a missing
\* key raises), and a record missing its text key is never stored.
C8_MalformedNeverRaises ==
    /\ ret.raised # "KeyError"
    /\ \A k \in 1..Len(StoreRecords) : "explanation" \in DOMAIN StoreRecords[k]

----------------------------------------------------------------------------
(* C9 *)

\* C9: update_with_feedback changes only the explanation store: in every
\* reachable state and for every explanations and feedback, the detector the
\* call leaves behind has the same fitted base scorer and the same
\* hyperparameters, and score_samples gives on it, for every X, what it gave
\* before the call.
C9_FeedbackFrame ==
    LET before == [X \in Matrices |-> Result(ScoreSamples(Self, X))]
    IN \A explanations \in ExplanationLists, feedback \in FeedbackLists :
        LET after == UpdateWithFeedback(Self, explanations, feedback).self
        IN /\ after.isolation_forest = isolation_forest
           /\ after.contamination = contamination
           /\ after.llm_confidence_threshold = llm_confidence_threshold
           /\ after.use_llm_supervision = use_llm_supervision
           /\ \A X \in Matrices : Result(ScoreSamples(after, X)) = before[X]

\* update_with_feedback has returned on a fitted detector, leaving a record
\* and its embedding in the store
C9_Witness ==
    /\ last_call = "update_with_feedback"
    /\ ret.raised = "none"
    /\ Fitted
    /\ Len(StoreRecords) > 0
    /\ Len(StoreEmbeddings) = Len(StoreRecords)

----------------------------------------------------------------------------
(* C10 *)

\* C10: predict is read-only and repeatable: in every reachable state and for
\* every X and explanations, the detector predict leaves behind is the
\* detector it was called on (store, embeddings, base scorer and
\* hyperparameters), and a second predict with the same arguments, made on
\* what the first left behind, gives the same labels (or raises the same
\* exception).
C10_PredictReadOnly ==
    \A X \in Matrices, explanations \in OptExplanationLists :
        \A first \in {Predict(Self, X, explanations)} :
            \A second \in {Predict(first.self, X, explanations)} :
                /\ first.self = Self
                /\ second.raised = first.raised
                /\ second.value = first.value

\* predict has returned after overriding a base-normal row from a non-empty store
C10_Witness ==
    /\ use_llm_supervision
    /\ Len(StoreEmbeddings) > 0
    /\ \E X \in Matrices, explanations \in OptExplanationLists :
        /\ CalledPredict(X, explanations)
        /\ ret.raised = "none"
        /\ ~IsNone(explanations)
        /\ \E i \in Slots(X, explanations) : BaseLabels(X)[i] = 1 /\ ret.value[i] = -1

----------------------------------------------------------------------------
(* C11 *)

\* C11: fit always fits the base scorer, and when use_llm_supervision is true
\* and explanations is a non-empty list, the store after fit holds exactly the
\* given records in the given order, with one embedding per record (that of
\* the record's text), whatever the store held before the call.
C11_FitSeeding ==
    \A X \in Matrices, explanations \in OptExplanationLists :
        Len(X) > 0 =>
            LET out == Fit(Self, X, explanations)
            IN /\ out.self.isolation_forest = Some(IForestFit(X))
               /\ (use_llm_supervision /\ LenOpt(explanations) > 0) =>
                     /\ RecordsOf(out.self) = Val(explanations)
                     /\ Len(EmbeddingsOf(out.self)) = Len(Val(explanations))
                     /\ \A k \in 1..Min(Len(EmbeddingsOf(out.self)), Len(Val(explanations))) :
                           EmbeddingsOf(out.self)[k] = Embed(TextOf(Val(explanations)[k]))

----------------------------------------------------------------------------
(* C12 *)

\* C12: a predict call given X and a list of explanations whose length differs
\* from the number of rows of X (on a fitted detector that reads explanations,
\* use_llm_supervision being true) fails with the error of a bad dimension
\* (ValueError, the one an empty or ragged X raises): it returns no labels and
\* raises nothing else.
C12_DimensionError ==
    \A X \in Matrices, explanations \in OptExplanationLists :
        (/\ CalledPredict(X, explanations)
         /\ Fitted
         /\ use_llm_supervision
         /\ ~IsNone(explanations)
         /\ LenOpt(explanations) # Len(X)) => ret.raised = "ValueError"

----------------------------------------------------------------------------
(* C13 *)

\* C13: a fit or predict call during which the text encoder failed does not
\* raise: it completes, and a predict call returns the base scorer's labels
\* of its batch (the rows being treated as having empty text).
C13_GracefulDegradation ==
    (encoder_failed /\ last_call \in {"fit", "predict"}) =>
        /\ ret.raised = "none"
        /\ last_call = "predict" =>
              \E X \in Matrices : Len(X) > 0 /\ ret.value = BaseLabels(X)

----------------------------------------------------------------------------
(* C14 *)

\* the labels get_anomaly_data(use_llm = True) computes on df when it is the
\* first request the process serves
LabelsServedFirst(df) ==
    Serve(NewDetector(FALSE), <<>>, llm_explainer, TRUE, df).value

\* C14: a use_llm = True request that get_anomaly_data computes while the
\* explainer is available is served by a cached detector with text
\* supervision enabled, and gets the labels it would get as the first request
\* served, whatever requests were served before it.
C14_RequestOrderIndependence ==
    (/\ ~IsNone(request)
     /\ llm_explainer
     /\ Val(request).use_llm
     /\ Val(request).computed
     /\ Val(request).raised = "none") =>
        /\ use_llm_supervision
        /\ Val(request).labels = LabelsServedFirst(Val(request).df)

----------------------------------------------------------------------------
(* C15 *)

\* C15: once the construction of an AnomalyExplainer has completed (self.llm
\* is set), the attribute prompt_template is set, and no explain_anomaly call
\* fails for want of it (AttributeError).
C15_ExplainerUsable ==
    /\ llm => prompt_template
    /\ ~IsNone(explained) => Val(explained).raised # "AttributeError"

----------------------------------------------------------------------------
(* C16 *)

\* an attempt that ended in a requests exception
Failed == {"get_failed", "pull_failed"}
\* an attempt that found the model listed, or pulled it
Succeeded == {"listed", "pulled"}

\* the attempts begun so far by the running (or last) call
AttemptsBegun == IF pc \in {"get", "pull"} THEN Len(log) + 1 ELSE Len(log)

\* the failed attempts that were not the last one allowed
FailedNotLast == {i \in 1..Len(log) : log[i] \in Failed /\ i < max_retries}

RetryLaw ==
    /\ AttemptsBegun <= max_retries
    \* no attempt follows one that succeeded or raised another exception
    /\ \A i \in 1..(Len(log) - 1) : log[i] \in Failed
    /\ (Len(log) > 0 /\ log[Len(log)] \in Succeeded) => (pc = "returned" /\ error = "none")
    /\ pc = "returned" =>
          \/ Len(log) > 0 /\ log[Len(log)] \in Succeeded
          \/ Len(log) = 0 /\ max_retries = 0
    \* one sleep after each failed attempt that is not the last, none after the last
    /\ IF pc = "sleep"
       THEN /\ Len(log) > 0
            /\ log[Len(log)] \in Failed
            /\ Len(log) < max_retries
            /\ sleeps = Len(log) - 1
       ELSE sleeps = Cardinality(FailedNotLast)
    /\ (Len(log) > 0 /\ Len(log) = max_retries /\ log[Len(log)] \in Failed) =>
          (pc = "raised" /\ error = "RuntimeError")
    /\ error = "RuntimeError" =>
          (pc = "raised" /\ Len(log) = max_retries /\ log[Len(log)] \in Failed)

\* C16: ensure_model_available begins at most max_retries attempts and
\* always ends; it returns at the first attempt that finds the model listed or
\* pulls it, sleeps once and goes on after each attempt that a requests
\* exception ended and that is not the last, and raises RuntimeError when a
\* requests exception ends the attempt numbered max_retries.
C16_BoundedRetry ==
    /\ []RetryLaw
    /\ (pc \in {"for", "get", "pull", "sleep"}) ~> (pc \in {"returned", "raised"})

\* the construction has raised RuntimeError at its third attempt, having
\* slept after the first and the second
C16_Witness ==
    /\ ~llm
    /\ max_retries = DefaultMaxRetries
    /\ pc = "raised"
    /\ error = "RuntimeError"
    /\ Len(log) = DefaultMaxRetries
    /\ sleeps = DefaultMaxRetries - 1

====
